---- MODULE Spec2Model ----
(***************************************************************************)
(* Extreme-value frequency analysis of the Hydrology scripts:              *)
(*   Wetland Frequency Analysis/wetland_frequency_analysis.py              *)
(*   Flood Frequency Analysis/Flood Frequency Analysis Using the Gumbel    *)
(*   Distribution.py                                                       *)
(*                                                                         *)
(* A state holds the arguments of one call and, once the call has run,     *)
(* everything the call computed, raised and wrote.  Each function of the   *)
(* scripts is one action that runs the whole function.                     *)
(*                                                                         *)
(* Numbers.  Sample values and thresholds are integers.  Probabilities and *)
(* return periods are exact rationals <<num, den>>; the constant a = 0.44  *)
(* is carried in hundredths, so (rank - a) / (N + 1 - 2a) is               *)
(* <<100*rank - 44, 100*N + 100 - 88>>.  The library fits (gumbel_r.fit,   *)
(* weibull_min.fit, pareto.fit) and the quantile function ppf are external *)
(* to the scripts: the model records that they were called (calls) and the *)
(* probability handed to ppf, not the fitted numbers.                      *)
(***************************************************************************)
EXTENDS Integers, Sequences, FiniteSets, TLC

\* ---------------------------------------------------------------- bounds
MaxN == 3      \* longest enumerated sample
MaxVal == 1    \* enumerated sample values and thresholds are -1..MaxVal

\* ------------------------------------------------------------- constants
a100 == 44     \* a = 0.44, in hundredths

None == <<>>   \* Python None (threshold=None); a given threshold t is <<t>>

\* ------------------------------------------------------------- rationals
Rat(n, d) == <<n, d>>
RatEq(x, y) == x[1] * y[2] = y[1] * x[2]
RatLess(x, y) == x[1] * y[2] < y[1] * x[2]           \* positive denominators
RatInv(x) == IF x[1] < 0 THEN <<0 - x[2], 0 - x[1]>> ELSE <<x[2], x[1]>>
RatOneMinus(x) == <<x[2] - x[1], x[2]>>
\* x rounded to k decimals, as an integer number of 10^-k units (half up)
Pow10(k) == IF k = 3 THEN 1000 ELSE IF k = 2 THEN 100 ELSE IF k = 1 THEN 10 ELSE 1
RoundTo(x, k) == (2 * x[1] * Pow10(k) + x[2]) \div (2 * x[2])

\* ---------------------------------------------------------------- inputs
ExampleSample == <<120, 95, 150, 80, 110>>
Values == (0 - 1)..MaxVal
Samples == UNION {[1..n -> Values] : n \in 1..MaxN} \cup {ExampleSample}
Extremes == {"high", "low"}
Distributions == {"gumbel", "weibull", "lognormal"}
Thresholds == {None} \cup {<<t>> : t \in Values} \cup {<<100>>}
\* 100 is the default; 53/14 is the empirical return period of rank 1 of 2
TargetPeriods == {Rat(100, 1), Rat(2, 1), Rat(53, 14)}

VARIABLES
    data, extreme, distribution, threshold, target_return_period,  \* arguments
    op,                    \* "idle", or the function that has run
    ranks,                 \* local ranks of the plotting-position estimator
    exceedance_prob, non_exceedance_prob, return_period,
    p_theoretical,         \* probabilities handed to ppf for the curve
    p_target,              \* <<p>>: probability handed to ppf for the target
    exceedances,           \* magnitudes returned by peak_over_threshold
    results_df,            \* rows of the table handed to to_excel
    files,                 \* artefacts written
    calls,                 \* trace of the functions and library calls made
    error                  \* "none" or the exception the call ended in

inputs == <<data, extreme, distribution, threshold, target_return_period>>
outputs == <<ranks, exceedance_prob, non_exceedance_prob, return_period,
             p_theoretical, p_target, exceedances, results_df, files, calls,
             error>>
vars == <<inputs, op, outputs>>

InvalidFamily == "ValueError: Distribution must be 'gumbel' or 'weibull'"
EmptyExceedance == "ValueError: No data points exceed the threshold"

\* ------------------------------------------------------------ numpy bits
Reverse(s) == [i \in 1..Len(s) |-> s[Len(s) + 1 - i]]           \* s[::-1]
AddScalar(s, k) == [i \in 1..Len(s) |-> s[i] + k]
\* the index vectors (permutations of 0..n-1) of each length, tabulated
\* once as explicit sets
LongestSample ==
    IF MaxN > Len(ExampleSample) THEN MaxN ELSE Len(ExampleSample)
PermTable ==
    [n \in 0..LongestSample |->
        {q : q \in {p \in [1..n -> 0..(n - 1)] :
                       \A i, j \in 1..n : i # j => p[i] # p[j]}}]
Perms0(n) == PermTable[n]
\* np.argsort(s): 0-based indices that sort s ascending.  The default kind
\* is an unstable sort, so the order of equal elements is any of the
\* outcomes; the result is the set of index vectors the call can return.
argsort(s) == {p \in Perms0(Len(s)) :
                 \A i \in 1..(Len(s) - 1) : s[p[i] + 1] <= s[p[i + 1] + 1]}


\* ------------------------------------------ plotting-position estimator
\* variant: the [::-1] of the high branch left out
rank_orders_ascending(sample, mode) == argsort(sample)

\* np.argsort(data)[::-1] for high extremes, np.argsort(data) for low
rank_orders(sample, mode) ==
    IF mode = "high" THEN {Reverse(o) : o \in argsort(sample)}
    ELSE argsort(sample)

\* variant: the + 1 left out (0-based ranks)
ranks_of_zero_based(order) == argsort(order)

\* np.argsort(order) + 1
ranks_of(order) == {AddScalar(q, 1) : q \in argsort(order)}

\* variant: the Weibull plotting position rank / (N + 1)
gringorten_weibull_position(rank, N) == Rat(100 * rank, 100 * N + 100)

\* variant: a = 1, that is (rank - 1) / (N - 1)
gringorten_a_one(rank, N) == Rat(100 * rank - 100, 100 * N + 100 - 200)

\* (rank - a) / (N + 1 - 2 * a)
gringorten(rank, N) == Rat(100 * rank - a100, 100 * N + 100 - 2 * a100)

ProbabilityRecord(r) ==
    LET N == Len(r)
        ex == [i \in 1..N |-> gringorten(r[i], N)]
    IN [ranks |-> r,
        exceedance_prob |-> ex,
        non_exceedance_prob |-> [i \in 1..N |-> RatOneMinus(ex[i])],
        return_period |-> [i \in 1..N |-> RatInv(ex[i])]]

\* the set of results the call can produce (one per outcome of argsort)
calculate_wetland_probabilities(sample, mode) ==
    {ProbabilityRecord(r) :
        r \in UNION {ranks_of(o) : o \in rank_orders(sample, mode)}}

\* the flood script: always descending
calculate_probabilities(peak_flows) ==
    {ProbabilityRecord(r) :
        r \in UNION {ranks_of(Reverse(o)) : o \in argsort(peak_flows)}}

\* --------------------------------------------------- distribution fitter
\* variant: the two directions of the Gumbel branch swapped
gumbel_p_swapped(T, mode) ==
    IF mode = "low" THEN RatOneMinus(RatInv(T)) ELSE RatInv(T)

gumbel_p(T, mode) ==
    IF mode = "high" THEN RatOneMinus(RatInv(T)) ELSE RatInv(T)

weibull_p(T, mode) ==
    IF mode = "low" THEN RatOneMinus(RatInv(T)) ELSE RatInv(T)

\* variant: an unknown family falls through to the Weibull branch
fit_distribution_no_raise(sample, return_periods, family, mode) ==
    IF family = "gumbel" THEN
        [error |-> "none",
         calls |-> <<"gumbel_r.fit", "gumbel_r.ppf">>,
         p_theoretical |->
            [i \in 1..Len(return_periods) |-> gumbel_p(return_periods[i], mode)]]
    ELSE
        [error |-> "none",
         calls |-> <<"weibull_min.fit", "weibull_min.ppf">>,
         p_theoretical |->
            [i \in 1..Len(return_periods) |-> weibull_p(return_periods[i], mode)]]

fit_distribution(sample, return_periods, family, mode) ==
    IF family = "gumbel" THEN
        [error |-> "none",
         calls |-> <<"gumbel_r.fit", "gumbel_r.ppf">>,
         p_theoretical |->
            [i \in 1..Len(return_periods) |-> gumbel_p(return_periods[i], mode)]]
    ELSE IF family = "weibull" THEN
        [error |-> "none",
         calls |-> <<"weibull_min.fit", "weibull_min.ppf">>,
         p_theoretical |->
            [i \in 1..Len(return_periods) |-> weibull_p(return_periods[i], mode)]]
    ELSE
        [error |-> InvalidFamily, calls |-> <<>>, p_theoretical |-> <<>>]

\* the flood script: Gumbel, 1 - 1/T
fit_gumbel_distribution(peak_flows, return_periods) ==
    [error |-> "none",
     calls |-> <<"gumbel_r.fit", "gumbel_r.ppf">>,
     p_theoretical |->
        [i \in 1..Len(return_periods) |-> RatOneMinus(RatInv(return_periods[i]))]]

\* --------------------------------------------------- peak over threshold
\* variant: non-strict comparison
crosses_or_equals(v, t, mode) == IF mode = "high" THEN v >= t ELSE v <= t

crosses(v, t, mode) == IF mode = "high" THEN v > t ELSE v < t

magnitude(v, t, mode) == IF mode = "high" THEN v - t ELSE t - v

\* variant: the emptiness check left out
peak_over_threshold_unchecked(sample, t, mode) ==
    LET kept == SelectSeq(sample, LAMBDA v : crosses(v, t, mode))
        exc == [i \in 1..Len(kept) |-> magnitude(kept[i], t, mode)]
    IN [error |-> "none", calls |-> <<"pareto.fit">>, exceedances |-> exc]

peak_over_threshold(sample, t, mode) ==
    LET kept == SelectSeq(sample, LAMBDA v : crosses(v, t, mode))
        exc == [i \in 1..Len(kept) |-> magnitude(kept[i], t, mode)]
    IN IF Len(exc) = 0
       THEN [error |-> EmptyExceedance, calls |-> <<>>, exceedances |-> <<>>]
       ELSE [error |-> "none", calls |-> <<"pareto.fit">>, exceedances |-> exc]

\* -------------------------------------------------------- scenario driver
\* variant: "if threshold:" (0 counts as no threshold)
pot_mode_truthy(th) == th # None /\ th[1] # 0

\* "if threshold is not None"
pot_mode(th) == th # None

\* p_target of the driver
target_probability(T, mode) ==
    IF mode = "high" THEN RatOneMinus(RatInv(T)) ELSE RatInv(T)

\* column 'Exceedances' of the POT table
pot_column(exc, t, mode) ==
    IF mode = "high" THEN AddScalar(exc, t)
    ELSE [i \in 1..Len(exc) |-> t - exc[i]]

Blank ==
    [ranks |-> <<>>, exceedance_prob |-> <<>>, non_exceedance_prob |-> <<>>,
     return_period |-> <<>>, p_theoretical |-> <<>>, p_target |-> <<>>,
     exceedances |-> <<>>, results_df |-> <<>>, files |-> {},
     calls |-> <<>>, error |-> "none"]

WithProbabilities(rec, pr) ==
    [rec EXCEPT !.ranks = pr.ranks,
                !.exceedance_prob = pr.exceedance_prob,
                !.non_exceedance_prob = pr.non_exceedance_prob,
                !.return_period = pr.return_period]

FrequencyTable(sample, pr) ==
    [i \in 1..Len(sample) |->
        [Value |-> sample[i], Rank |-> pr.ranks[i],
         Exceedance_Probability |-> pr.exceedance_prob[i],
         Non_Exceedance_Probability |-> pr.non_exceedance_prob[i],
         Return_Period |-> pr.return_period[i]]]

\* the results of wetland_frequency_analysis
wetland_frequency_analysis(sample, T, mode, family, th) ==
    IF pot_mode(th) THEN
        LET pot == peak_over_threshold(sample, th[1], mode)
            col == pot_column(pot.exceedances, th[1], mode)
        IN IF pot.error # "none"
           THEN {[Blank EXCEPT
                    !.calls = <<"read_wetland_data", "peak_over_threshold">>,
                    !.error = pot.error]}
           ELSE {[Blank EXCEPT
                    !.calls = <<"read_wetland_data", "peak_over_threshold">>
                              \o pot.calls \o <<"to_excel">>,
                    !.exceedances = pot.exceedances,
                    !.results_df = [i \in 1..Len(col) |->
                                      [Exceedances |-> col[i], Threshold |-> th[1]]],
                    !.files = {<<"wetland_pot_results", mode, "xlsx">>}]}
    ELSE
        {LET fit == fit_distribution(sample, pr.return_period, family, mode)
             head == <<"read_wetland_data", "calculate_wetland_probabilities",
                       "fit_distribution">> \o fit.calls
         IN IF fit.error # "none"
            THEN [WithProbabilities(Blank, pr) EXCEPT
                     !.calls = head, !.error = fit.error]
            ELSE [WithProbabilities(Blank, pr) EXCEPT
                     !.p_theoretical = fit.p_theoretical,
                     !.p_target = <<target_probability(T, mode)>>,
                     !.calls = head
                        \o (IF family = "gumbel" THEN <<"gumbel_r.ppf">>
                            ELSE <<"weibull_min.fit", "weibull_min.ppf">>)
                        \o <<"savefig", "to_excel">>,
                     !.results_df = FrequencyTable(sample, pr),
                     !.files = {<<"wetland_frequency_plot", mode, "png">>,
                                <<"wetland_frequency_results", mode, "xlsx">>}]
         : pr \in calculate_wetland_probabilities(sample, mode)}

\* the results of flood_frequency_analysis
flood_frequency_analysis(peak_flows, T) ==
    {LET fit == fit_gumbel_distribution(peak_flows, pr.return_period)
     IN [WithProbabilities(Blank, pr) EXCEPT
            !.p_theoretical = fit.p_theoretical,
            !.p_target = <<RatOneMinus(RatInv(T))>>,
            !.calls = <<"read_peak_flow_data", "calculate_probabilities",
                        "fit_gumbel_distribution">> \o fit.calls
                      \o <<"gumbel_r.ppf", "savefig", "to_excel">>,
            !.results_df = FrequencyTable(peak_flows, pr),
            !.files = {<<"flood_frequency_plot", "png">>,
                       <<"flood_frequency_results", "xlsx">>}]
     : pr \in calculate_probabilities(peak_flows)}

\* ------------------------------------------------------------ the machine
Init ==
    /\ data \in Samples
    /\ extreme \in Extremes
    /\ distribution \in Distributions
    /\ threshold \in Thresholds
    /\ target_return_period \in TargetPeriods
    /\ op = "idle"
    /\ ranks = <<>> /\ exceedance_prob = <<>> /\ non_exceedance_prob = <<>>
    /\ return_period = <<>> /\ p_theoretical = <<>> /\ p_target = <<>>
    /\ exceedances = <<>> /\ results_df = <<>> /\ files = {}
    /\ calls = <<>> /\ error = "none"

Finish(name, rec) ==
    /\ op' = name
    /\ ranks' = rec.ranks
    /\ exceedance_prob' = rec.exceedance_prob
    /\ non_exceedance_prob' = rec.non_exceedance_prob
    /\ return_period' = rec.return_period
    /\ p_theoretical' = rec.p_theoretical
    /\ p_target' = rec.p_target
    /\ exceedances' = rec.exceedances
    /\ results_df' = rec.results_df
    /\ files' = rec.files
    /\ calls' = rec.calls
    /\ error' = rec.error
    /\ UNCHANGED inputs

CalculateWetlandProbabilities ==
    /\ op = "idle"
    /\ \E pr \in calculate_wetland_probabilities(data, extreme) :
          Finish("calculate_wetland_probabilities", WithProbabilities(Blank, pr))

\* called with the one-element array [target_return_period]
FitDistribution ==
    /\ op = "idle"
    /\ LET fit == fit_distribution(data, <<target_return_period>>,
                                   distribution, extreme)
       IN Finish("fit_distribution",
                 [Blank EXCEPT !.p_theoretical = fit.p_theoretical,
                               !.calls = fit.calls, !.error = fit.error])

PeakOverThreshold ==
    /\ op = "idle"
    /\ threshold # None
    /\ LET pot == peak_over_threshold(data, threshold[1], extreme)
       IN Finish("peak_over_threshold",
                 [Blank EXCEPT !.exceedances = pot.exceedances,
                               !.calls = pot.calls, !.error = pot.error])

WetlandFrequencyAnalysis ==
    /\ op = "idle"
    /\ \E rec \in wetland_frequency_analysis(data, target_return_period,
                                             extreme, distribution, threshold) :
          Finish("wetland_frequency_analysis", rec)

CalculateProbabilities ==
    /\ op = "idle"
    /\ \E pr \in calculate_probabilities(data) :
          Finish("calculate_probabilities", WithProbabilities(Blank, pr))

FitGumbelDistribution ==
    /\ op = "idle"
    /\ LET fit == fit_gumbel_distribution(data, <<target_return_period>>)
       IN Finish("fit_gumbel_distribution",
                 [Blank EXCEPT !.p_theoretical = fit.p_theoretical,
                               !.calls = fit.calls])

FloodFrequencyAnalysis ==
    /\ op = "idle"
    /\ \E rec \in flood_frequency_analysis(data, target_return_period) :
          Finish("flood_frequency_analysis", rec)

Next ==
    \/ CalculateWetlandProbabilities
    \/ FitDistribution
    \/ PeakOverThreshold
    \/ WetlandFrequencyAnalysis
    \/ CalculateProbabilities
    \/ FitGumbelDistribution
    \/ FloodFrequencyAnalysis

Spec == Init /\ [][Next]_vars

\* ================================================================ claims
WetlandRun == op = "wetland_frequency_analysis"
FitRun == WetlandRun /\ threshold = None
PotRun == WetlandRun /\ threshold # None
RankingOps == {"calculate_wetland_probabilities", "calculate_probabilities",
               "wetland_frequency_analysis", "flood_frequency_analysis"}
FloodOps == {"calculate_probabilities", "fit_gumbel_distribution",
             "flood_frequency_analysis"}
\* a state in which the plotting-position estimator has run
Ranked == op \in RankingOps /\ Len(ranks) = Len(data)
\* the extremes mode the estimator ran in (the flood script is always high)
Mode == IF op \in FloodOps THEN "high" ELSE extreme
ValidFamily == distribution \in {"gumbel", "weibull"}
Called(f) == \E k \in 1..Len(calls) : calls[k] = f
\* the convention of the specification: 1 - 1/T for high, 1/T for low
SpecDirection(T, mode) ==
    IF mode = "high" THEN RatOneMinus(RatInv(T)) ELSE RatInv(T)
\* the return periods the curve was computed for
CurveArgs ==
    IF op = "fit_distribution" THEN <<target_return_period>> ELSE return_period

\* C1: for gumbel and weibull, high and low, every probability handed to
\* the quantile function is 1 - 1/T (high) or 1/T (low), both for the
\* theoretical curve of fit_distribution and for the driver's target.
C1_DirectionConvention ==
    (op \in {"fit_distribution", "wetland_frequency_analysis"} /\ ValidFamily)
    => /\ \A i \in 1..Len(p_theoretical) :
             RatEq(p_theoretical[i], SpecDirection(CurveArgs[i], extreme))
       /\ \A i \in 1..Len(p_target) :
             RatEq(p_target[i], SpecDirection(target_return_period, extreme))

\* C2: in a non-POT run, wherever an empirical return period equals the
\* target return period, the curve's probability equals the target's
\* probability (so the curve value there is the TargetEstimate).
C2_CurveMatchesTarget ==
    (FitRun /\ error = "none")
    => \A i \in 1..Len(return_period) :
          RatEq(return_period[i], target_return_period)
          => RatEq(p_theoretical[i], p_target[1])

\* C3 as stated: with a family other than gumbel or weibull, every call of
\* fit_distribution and every scenario invocation, whatever the threshold,
\* ends in the invalid-family error with nothing returned or written.
C3_InvalidFamilyAlwaysFatal ==
    (op \in {"fit_distribution", "wetland_frequency_analysis"} /\ ~ValidFamily)
    => /\ error = InvalidFamily
       /\ p_theoretical = <<>> /\ p_target = <<>>
       /\ files = {} /\ results_df = <<>>

\* C3 amended: with a family other than gumbel or weibull, every call of
\* fit_distribution, and every scenario invocation without a threshold,
\* ends in the invalid-family error with nothing returned or written; an
\* invocation with a threshold never ends in the invalid-family error.
C3_InvalidFamilyFatalWithoutThreshold ==
    ~ValidFamily
    => /\ (op = "fit_distribution" \/ FitRun)
          => /\ error = InvalidFamily
             /\ p_theoretical = <<>> /\ p_target = <<>>
             /\ files = {} /\ results_df = <<>>
       /\ PotRun => error # InvalidFamily

C3_Witness ==
    /\ FitRun /\ distribution = "lognormal"
    /\ error = InvalidFamily /\ Called("fit_distribution")

\* no element of the sample crosses the threshold, in the claim's words
NoneCrosses ==
    IF extreme = "high" THEN \A i \in 1..Len(data) : threshold[1] >= data[i]
    ELSE \A i \in 1..Len(data) : threshold[1] <= data[i]

\* C4: in POT mode, if no element crosses the threshold the call ends in
\* the empty-exceedance error, no Pareto fit is made and no POT file is
\* written; if some element crosses it, that error is not raised.
C4_EmptyExceedance ==
    ((op = "peak_over_threshold" \/ PotRun) /\ threshold # None)
    => /\ NoneCrosses
          => /\ error = EmptyExceedance
             /\ ~Called("pareto.fit") /\ ~Called("to_excel")
             /\ files = {} /\ results_df = <<>> /\ exceedances = <<>>
       /\ ~NoneCrosses => error = "none"

C4_Witness ==
    /\ PotRun /\ NoneCrosses /\ error = EmptyExceedance
    /\ \E i \in 1..Len(data) : data[i] = threshold[1]

FitModeCalls ==
    {"calculate_wetland_probabilities", "fit_distribution", "gumbel_r.fit",
     "gumbel_r.ppf", "weibull_min.fit", "weibull_min.ppf", "savefig"}
PotFile == <<"wetland_pot_results", extreme, "xlsx">>

\* C5: POT mode and distribution-fit mode exclude each other.  With a
\* threshold (0 included) only the POT step runs and only the POT file can
\* be written; without one, peak_over_threshold is never called and no
\* POT file is written.
C5_ModesExclusive ==
    WetlandRun
    => /\ threshold # None
          => /\ Called("peak_over_threshold")
             /\ \A f \in FitModeCalls : ~Called(f)
             /\ ranks = <<>> /\ exceedance_prob = <<>> /\ return_period = <<>>
             /\ p_theoretical = <<>> /\ p_target = <<>>
             /\ files \subseteq {PotFile}
             /\ error = "none" => files = {PotFile}
       /\ threshold = None
          => /\ ~Called("peak_over_threshold") /\ ~Called("pareto.fit")
             /\ exceedances = <<>>
             /\ PotFile \notin files

C5_Witness ==
    /\ WetlandRun /\ threshold = <<0>> /\ files = {PotFile}

\* C6: for every sample of size N >= 2, duplicates included, the ranks are
\* a permutation of 1..N.
C6_RanksArePermutation ==
    (Ranked /\ Len(data) >= 2)
    => /\ {ranks[i] : i \in 1..Len(ranks)} = 1..Len(data)
       /\ \A i, j \in 1..Len(ranks) : i # j => ranks[i] # ranks[j]

C6_Witness ==
    /\ Ranked /\ Len(data) >= 2
    /\ \E i, j \in 1..Len(data) : i # j /\ data[i] = data[j]

\* C7: ranking is monotone.  High: a larger value has a smaller rank and a
\* smaller exceedance probability, and rank 1 is a largest value.  Low: a
\* smaller value has a smaller rank, and rank 1 is a smallest value.
C7_RankingMonotone ==
    Ranked
    => \A i, j \in 1..Len(data) :
          /\ (Mode = "high" /\ data[i] > data[j])
             => /\ ranks[i] < ranks[j]
                /\ RatLess(exceedance_prob[i], exceedance_prob[j])
          /\ (Mode = "high" /\ ranks[i] = 1) => data[i] >= data[j]
          /\ (Mode = "low" /\ data[i] < data[j]) => ranks[i] < ranks[j]
          /\ (Mode = "low" /\ ranks[i] = 1) => data[i] <= data[j]

C7_Witness ==
    /\ Ranked /\ Mode = "high"
    /\ \E i, j \in 1..Len(data) : data[i] > data[j] /\ ranks[i] < ranks[j]
    /\ \E i, j \in 1..Len(data) : i # j /\ data[i] = data[j]

ExampleRun == Ranked /\ Mode = "high" /\ data = ExampleSample

\* C8 as stated: the example sample in high mode has ranks [2,4,1,5,3],
\* and its rank-1 element has exceedance probability 0.137 (three
\* decimals) and return period 7.32 (two decimals).
C8_ExampleAsStated ==
    ExampleRun
    => /\ ranks = <<2, 4, 1, 5, 3>>
       /\ \A i \in 1..Len(ranks) :
             ranks[i] = 1 => /\ RoundTo(exceedance_prob[i], 3) = 137
                             /\ RoundTo(return_period[i], 2) = 732

\* C8 amended: the example sample in high mode has ranks [2,4,1,5,3], and
\* its rank-1 element has exceedance probability 0.56/5.12 = 0.109 (three
\* decimals) and return period 9.14 (two decimals).
C8_ExampleAsComputed ==
    ExampleRun
    => /\ ranks = <<2, 4, 1, 5, 3>>
       /\ \A i \in 1..Len(ranks) :
             ranks[i] = 1 => /\ RoundTo(exceedance_prob[i], 3) = 109
                             /\ RoundTo(return_period[i], 2) = 914

C8_Witness == ExampleRun /\ ranks[3] = 1 /\ op = "calculate_wetland_probabilities"

\* the indices of the elements that strictly cross the threshold
Crossing ==
    {i \in 1..Len(data) :
        IF extreme = "high" THEN data[i] > threshold[1]
        ELSE data[i] < threshold[1]}
\* the k-th crossing index, in sample order
KthCrossing(k) ==
    CHOOSE i \in Crossing : Cardinality({j \in Crossing : j <= i}) = k

\* C9: peak_over_threshold keeps exactly the elements that strictly cross
\* the threshold, in sample order; each magnitude is value - threshold
\* (high) or threshold - value (low), hence strictly positive.
C9_StrictExceedances ==
    ((op = "peak_over_threshold" \/ PotRun) /\ threshold # None)
    => /\ Len(exceedances) = Cardinality(Crossing)
       /\ \A k \in 1..Len(exceedances) :
             /\ exceedances[k] =
                   IF extreme = "high" THEN data[KthCrossing(k)] - threshold[1]
                   ELSE threshold[1] - data[KthCrossing(k)]
             /\ exceedances[k] > 0

C9_Witness ==
    /\ op = "peak_over_threshold" /\ Len(exceedances) >= 2
    /\ Len(exceedances) < Len(data)
    /\ exceedances[1] # exceedances[2]
    /\ \E i \in 1..Len(data) : data[i] = threshold[1]

InUnitInterval(p) == p[2] > 0 /\ p[1] > 0 /\ p[1] < p[2]

\* C10: for every N >= 1 and every rank, the exceedance probability lies
\* strictly between 0 and 1, every empirical return period is finite and
\* greater than 1, and every probability handed to the quantile function
\* for the curve lies strictly between 0 and 1; nothing is divided by 0.
C10_ProbabilitiesInUnitInterval ==
    Ranked
    => /\ \A i \in 1..Len(ranks) :
             /\ ranks[i] \in 1..Len(data)
             /\ InUnitInterval(exceedance_prob[i])
             /\ InUnitInterval(non_exceedance_prob[i])
             /\ return_period[i][2] > 0
             /\ return_period[i][1] > return_period[i][2]
       /\ \A i \in 1..Len(p_theoretical) : InUnitInterval(p_theoretical[i])

C10_Witness ==
    /\ FitRun /\ Len(data) = 1 /\ Len(p_theoretical) = 1
    /\ RatEq(exceedance_prob[1], Rat(1, 2))

\* what the plotting-position estimator left in the state
StateProbabilities ==
    [ranks |-> ranks, exceedance_prob |-> exceedance_prob,
     non_exceedance_prob |-> non_exceedance_prob,
     return_period |-> return_period]
\* rec agrees with the state on the estimator's results and on the
\* probabilities handed to the quantile function (curve and target)
SameProbabilities(rec) ==
    /\ rec.ranks = ranks
    /\ rec.exceedance_prob = exceedance_prob
    /\ rec.non_exceedance_prob = non_exceedance_prob
    /\ rec.return_period = return_period
    /\ rec.error = error
    /\ Len(rec.p_theoretical) = Len(p_theoretical)
    /\ \A i \in 1..Len(p_theoretical) :
          RatEq(rec.p_theoretical[i], p_theoretical[i])
    /\ Len(rec.p_target) = Len(p_target)
    /\ \A i \in 1..Len(p_target) : RatEq(rec.p_target[i], p_target[i])

\* C11: the flood pipeline is the high/gumbel instance of the wetland
\* pipeline.  Whatever calculate_probabilities returns, the wetland
\* estimator with extreme='high' returns on the same sample, and conversely;
\* whatever probabilities flood_frequency_analysis hands the quantile
\* function (curve and target), wetland_frequency_analysis with
\* extreme='high', distribution='gumbel' and no threshold hands it on the
\* same sample and target return period, and conversely.
C11_FloodIsHighGumbelWetland ==
    /\ op = "calculate_probabilities"
       => StateProbabilities \in calculate_wetland_probabilities(data, "high")
    /\ (op = "calculate_wetland_probabilities" /\ extreme = "high")
       => StateProbabilities \in calculate_probabilities(data)
    /\ op = "flood_frequency_analysis"
       => \E rec \in wetland_frequency_analysis(data, target_return_period,
                                                "high", "gumbel", None) :
             SameProbabilities(rec)
    /\ (FitRun /\ extreme = "high" /\ distribution = "gumbel")
       => \E rec \in flood_frequency_analysis(data, target_return_period) :
             SameProbabilities(rec)

C11_Witness ==
    /\ op = "flood_frequency_analysis"
    /\ Len(data) >= 2 /\ Len(p_theoretical) = Len(data) /\ Len(p_target) = 1
    /\ \E i, j \in 1..Len(data) : i # j /\ data[i] = data[j]
    /\ \E i, j \in 1..Len(data) : data[i] > data[j]
    /\ \E i \in 1..Len(data) : ~RatEq(p_theoretical[i], p_target[1])

====
